---- MODULE Spec2Model ----
(***************************************************************************)
(* The C-style WASM boundary of the clang-format wrapper                   *)
(* (src/unnamed/part_000 and src/src/wasi_binding.cc).                     *)
(*                                                                         *)
(* The two files export the same operations over the same globals          *)
(* (g_formatter, g_last_result).  They differ in what wasm_format returns  *)
(* (a pointer to g_last_result in part_000, the status integer in          *)
(* wasi_binding.cc) and in that only part_000 exports get_result_status.   *)
(* The variable `variant` fixes, per behaviour, which file was built.      *)
(*                                                                         *)
(* Linear memory is a finite pool of block addresses.  malloc returns any  *)
(* address that is not live (so a freed address can be handed out again);  *)
(* the malloc of wasm_format is assumed to succeed.  What the caller keeps *)
(* in its own blocks is not state: the caller may write them between any   *)
(* two calls, so a (pointer, length) input is modelled by the bytes read   *)
(* through it.  The formatting engine (class ClangFormat, lib.h) is not    *)
(* part of the sources: its format() is modelled as returning any Result   *)
(* value, whatever code and filename it is given.                          *)
(***************************************************************************)
EXTENDS Integers, Sequences, FiniteSets, TLC

(* ---------------------------- bounds ---------------------------------- *)
\* number of block addresses of the linear-memory heap
MaxAddrs == 2
\* longest byte string (engine output, style name)
MaxLen == 1
\* most blocks the caller holds from wasm_alloc at one time
MaxCallerBufs == 1

(* ---------------------------- values ---------------------------------- *)
NULL == 0

Addrs == 1..MaxAddrs

\* byte values: strings of the model differ by their length
Bytes == {0}

RECURSIVE SeqsOfLen(_)
SeqsOfLen(n) ==
    IF n = 0 THEN {<<>>}
    ELSE {Append(s, b) : s \in SeqsOfLen(n - 1), b \in Bytes}

\* std::string values up to the bound
Strings == UNION {SeqsOfLen(n) : n \in 0..MaxLen}

Variants == {"part_000", "wasi_binding"}

\* enum class ResultStatus of lib.h, as the switch of wasm_format names it
ResultStatus == {"Success", "Error", "Unchanged"}

\* struct Result of lib.h: the fields wasm_format reads
Result == [status : ResultStatus, content : Strings]

\* the status integer wasm_format stores for each engine status
StatusCode(s) ==
    CASE s = "Success" -> 0
      [] s = "Error" -> 1
      [] s = "Unchanged" -> 2

(* ---------------------------- state ----------------------------------- *)
VARIABLES
    variant,        \* which of the two boundary files is built
    g_formatter,    \* static ClangFormat*: NULL or the index of the object in `objects`
    objects,        \* every ClangFormat constructed by `new`, in order
    g_last_result,  \* static WasmResult: [status, content_ptr, content_len]
    heap,           \* Addrs -> block: [live, owner, bytes]
    ver_ptr,        \* the function-local static `ver` of wasm_version: <<>> until initialised
    ver_len,        \* the function-local static `ver` of wasm_version_len
    versionCalls,   \* how often ClangFormat::version() ran
    lastCall,       \* the boundary operation that ran last
    ret,            \* what it returned: [type, v]
    frees,          \* the addresses it passed to free, in order
    engine,         \* <<>>, or <<the engine call it made>>
    ub,             \* some call freed a block that was not live, or not its own
    init_called,    \* wasm_init has been called
    last_style,     \* <<>>, or <<the string of the last set_style that returned 0>>
    last_fallback,  \* the same for set_fallback_style
    wasi,           \* the build of src/src/wasi_binding.cc, given the same calls
    pair            \* whether that second build is run beside this one

vars == <<variant, g_formatter, objects, g_last_result, heap, ver_ptr, ver_len,
          versionCalls, lastCall, ret, frees, engine, ub, init_called,
          last_style, last_fallback, wasi, pair>>

\* a block no allocation holds; a caller's block is kept without its bytes
FreeBlock == [live |-> FALSE, owner |-> "none", bytes |-> <<>>]

\* a default-constructed ClangFormat: no style configured yet
NewClangFormat == [style |-> <<>>, fallback_style |-> <<>>]

\* return values
Void == [type |-> "void", v |-> 0]
IntRet(n) == [type |-> "int", v |-> n]
PtrRet(a) == [type |-> "ptr", v |-> a]
\* &g_last_result
ResultRef == [type |-> "WasmResult*", v |-> NULL + 1]

\* ClangFormat::with_style(s): the primary style becomes s
with_style(objs, this, s) == [objs EXCEPT ![this].style = <<s>>]

\* ClangFormat::with_fallback_style(s): the fallback style becomes s
with_fallback_style(objs, this, s) == [objs EXCEPT ![this].fallback_style = <<s>>]

\* ClangFormat::version(): the engine's version string
EngineVersion == <<0, 0>>

\* the address of the characters of the static `ver` of wasm_version
VerAddr == [type |-> "const char*", v |-> MaxAddrs + 1]

(* ---------------------------- heap ------------------------------------ *)
\* addresses malloc may return
FreeAddrs(h) == {a \in Addrs : ~h[a].live}

\* malloc(size) returning address a, owned by who, holding bytes b
MallocAt(h, a, who, b) == [h EXCEPT ![a] = [live |-> TRUE, owner |-> who, bytes |-> b]]

\* free(p); free(NULL) does nothing
Free(h, p) == IF p = NULL THEN h ELSE [h EXCEPT ![p] = FreeBlock]

\* free(p) by `who` is an error when p is not a live block of `who`
BadFree(h, p, who) == p # NULL /\ (~h[p].live \/ h[p].owner # who)

CallerBlocks(h) == {a \in Addrs : h[a].live /\ h[a].owner = "caller"}

ResultBlocks(h) == {a \in Addrs : h[a].live /\ h[a].owner = "result"}

(* ---------------------------- wasi_binding.cc ------------------------- *)
(* The exports of src/src/wasi_binding.cc as functions of that build's     *)
(* state w, for running it beside the build under study on the same calls: *)
(* the same arguments, the same engine results and the same allocator      *)
(* choices.  wasi_binding.cc has no get_result_status.                     *)

\* g_formatter = nullptr; g_last_result = {0, nullptr, 0}
W_Init ==
    [g_formatter |-> NULL,
     objects |-> <<>>,
     g_last_result |-> [status |-> 0, content_ptr |-> NULL, content_len |-> 0],
     heap |-> [a \in Addrs |-> FreeBlock],
     ver_ptr |-> <<>>,
     ver_len |-> <<>>,
     ret |-> Void,
     frees |-> <<>>]

\* the outcome of a call that frees nothing
W_Return(w, r) == [w EXCEPT !.ret = r, !.frees = <<>>]

\* a step in which this build is not called (the call is not among its exports)
W_NoCall(w) == W_Return(w, Void)

\* wasm_alloc returning a (NULL included)
W_alloc(w, a) ==
    W_Return(IF a = NULL THEN w
             ELSE [w EXCEPT !.heap = MallocAt(w.heap, a, "caller", <<>>)],
             PtrRet(a))

\* wasm_dealloc(ptr)
W_dealloc(w, ptr) ==
    [w EXCEPT !.heap = Free(w.heap, ptr),
              !.frees = IF ptr = NULL THEN <<>> ELSE <<ptr>>,
              !.ret = Void]

\* wasm_init
W_init(w) ==
    W_Return(IF w.g_formatter = NULL
             THEN [w EXCEPT !.objects = Append(w.objects, NewClangFormat),
                            !.g_formatter = Len(w.objects) + 1]
             ELSE w,
             Void)

\* wasm_set_style(style, style_len)
W_set_style(w, s) ==
    IF w.g_formatter = NULL THEN W_Return(w, IntRet(-1))
    ELSE W_Return([w EXCEPT !.objects = with_style(w.objects, w.g_formatter, s)],
                  IntRet(0))

\* wasm_set_fallback_style(style, style_len)
W_set_fallback_style(w, s) ==
    IF w.g_formatter = NULL THEN W_Return(w, IntRet(-1))
    ELSE W_Return([w EXCEPT !.objects = with_fallback_style(w.objects, w.g_formatter, s)],
                  IntRet(0))

\* mutant: the previous content is not freed before the next is stored
W_format_NoFree(w, result, a) ==
    IF w.g_formatter = NULL
    THEN [w EXCEPT !.g_last_result = [status |-> 1, content_ptr |-> NULL, content_len |-> 0],
                   !.ret = IntRet(1),
                   !.frees = <<>>]
    ELSE LET st == StatusCode(result.status)
         IN IF result.content # <<>>
            THEN [w EXCEPT !.g_last_result = [status |-> st, content_ptr |-> a,
                                              content_len |-> Len(result.content)],
                           !.heap = MallocAt(w.heap, a, "result", result.content),
                           !.frees = <<>>,
                           !.ret = IntRet(st)]
            ELSE [w EXCEPT !.g_last_result = [status |-> st, content_ptr |-> NULL,
                                              content_len |-> 0],
                           !.frees = <<>>,
                           !.ret = IntRet(st)]

\* wasm_format, the engine returning result and malloc returning a
W_format(w, result, a) ==
    IF w.g_formatter = NULL
    THEN [w EXCEPT !.g_last_result = [status |-> 1, content_ptr |-> NULL, content_len |-> 0],
                   !.ret = IntRet(1),
                   !.frees = <<>>]
    ELSE LET prev == w.g_last_result.content_ptr
             h1 == Free(w.heap, prev)
             st == StatusCode(result.status)
         IN IF result.content # <<>>
            THEN [w EXCEPT !.g_last_result = [status |-> st, content_ptr |-> a,
                                              content_len |-> Len(result.content)],
                           !.heap = MallocAt(h1, a, "result", result.content),
                           !.frees = IF prev # NULL THEN <<prev>> ELSE <<>>,
                           !.ret = IntRet(st)]
            ELSE [w EXCEPT !.g_last_result = [status |-> st, content_ptr |-> NULL,
                                              content_len |-> 0],
                           !.heap = h1,
                           !.frees = IF prev # NULL THEN <<prev>> ELSE <<>>,
                           !.ret = IntRet(st)]

\* wasm_get_result_ptr
W_get_result_ptr(w) == W_Return(w, PtrRet(w.g_last_result.content_ptr))

\* wasm_get_result_len
W_get_result_len(w) == W_Return(w, IntRet(w.g_last_result.content_len))

\* wasm_free_result
W_free_result(w) ==
    IF w.g_last_result.content_ptr # NULL
    THEN [w EXCEPT !.heap = Free(w.heap, w.g_last_result.content_ptr),
                   !.frees = <<w.g_last_result.content_ptr>>,
                   !.g_last_result = [w.g_last_result EXCEPT !.content_ptr = NULL,
                                                             !.content_len = 0],
                   !.ret = Void]
    ELSE W_Return(w, Void)

\* wasm_version
W_version(w) ==
    W_Return(IF w.ver_ptr = <<>> THEN [w EXCEPT !.ver_ptr = <<EngineVersion>>] ELSE w,
             VerAddr)

\* wasm_version_len
W_version_len(w) ==
    LET w1 == IF w.ver_len = <<>> THEN [w EXCEPT !.ver_len = <<EngineVersion>>] ELSE w
    IN W_Return(w1, IntRet(Len(w1.ver_len[1])))

\* the second build's next state: w if it runs beside this one, else untouched
Beside(w) == IF pair THEN w ELSE wasi

(* ---------------------------- Init ------------------------------------ *)
Init ==
    /\ variant \in Variants
    /\ g_formatter = NULL
    /\ objects = <<>>
    /\ g_last_result = [status |-> 0, content_ptr |-> NULL, content_len |-> 0]
    /\ heap = [a \in Addrs |-> FreeBlock]
    /\ ver_ptr = <<>>
    /\ ver_len = <<>>
    /\ versionCalls = 0
    /\ lastCall = "none"
    /\ ret = Void
    /\ frees = <<>>
    /\ engine = <<>>
    /\ ub = FALSE
    /\ init_called = FALSE
    /\ last_style = <<>>
    /\ last_fallback = <<>>
    /\ wasi = W_Init
    /\ pair = FALSE

(* ---------------------------- allocator shim -------------------------- *)
\* wasm_alloc: malloc(size).  The block's bytes are whatever the memory held;
\* malloc(0) may return NULL, and malloc returns NULL when no address is free.
wasm_alloc ==
    /\ ub' = ub
    /\ Cardinality(CallerBlocks(heap)) < MaxCallerBufs
    /\ \E size \in 0..MaxLen :
         \/ /\ size = 0 \/ FreeAddrs(heap) = {}
            /\ ret' = PtrRet(NULL)
            /\ heap' = heap
            /\ wasi' = Beside(W_alloc(wasi, NULL))
         \/ \E a \in FreeAddrs(heap) :
              /\ heap' = MallocAt(heap, a, "caller", <<>>)
              /\ ret' = PtrRet(a)
              /\ wasi' = Beside(W_alloc(wasi, a))
    /\ lastCall' = "alloc"
    /\ frees' = <<>>
    /\ engine' = <<>>
    /\ UNCHANGED <<pair, last_style, last_fallback, init_called, variant, g_formatter,
                   objects, g_last_result, ver_ptr, ver_len, versionCalls>>

\* wasm_dealloc: free(ptr), for a pointer the caller owns (or NULL)
wasm_dealloc ==
    /\ \E ptr \in CallerBlocks(heap) \cup {NULL} :
         /\ heap' = Free(heap, ptr)
         /\ frees' = IF ptr = NULL THEN <<>> ELSE <<ptr>>
         /\ ub' = (ub \/ BadFree(heap, ptr, "caller"))
         /\ wasi' = Beside(W_dealloc(wasi, ptr))
    /\ lastCall' = "dealloc"
    /\ ret' = Void
    /\ engine' = <<>>
    /\ UNCHANGED <<pair, last_style, last_fallback, init_called, variant, g_formatter,
                   objects, g_last_result, ver_ptr, ver_len, versionCalls>>

(* ---------------------------- engine handle --------------------------- *)
\* mutant: a later call constructs the formatter's state anew
wasm_init_Reset ==
    /\ IF g_formatter = NULL
       THEN /\ objects' = Append(objects, NewClangFormat)
            /\ g_formatter' = Len(objects) + 1
       ELSE /\ objects' = [objects EXCEPT ![g_formatter] = NewClangFormat]
            /\ g_formatter' = g_formatter
    /\ init_called' = TRUE
    /\ lastCall' = "init"
    /\ wasi' = Beside(W_init(wasi))
    /\ ret' = Void
    /\ frees' = <<>>
    /\ engine' = <<>>
    /\ UNCHANGED <<pair, last_style, last_fallback, variant, g_last_result, heap,
                   ver_ptr, ver_len, versionCalls, ub>>

\* mutant: every call constructs a formatter
wasm_init_Always ==
    /\ objects' = Append(objects, NewClangFormat)
    /\ g_formatter' = Len(objects) + 1
    /\ init_called' = TRUE
    /\ lastCall' = "init"
    /\ wasi' = Beside(W_init(wasi))
    /\ ret' = Void
    /\ frees' = <<>>
    /\ engine' = <<>>
    /\ UNCHANGED <<pair, last_style, last_fallback, variant, g_last_result, heap,
                   ver_ptr, ver_len, versionCalls, ub>>

\* wasm_init: construct the formatter unless one exists
wasm_init ==
    /\ IF g_formatter = NULL
       THEN /\ objects' = Append(objects, NewClangFormat)
            /\ g_formatter' = Len(objects) + 1
       ELSE UNCHANGED <<g_formatter, objects>>
    /\ init_called' = TRUE
    /\ lastCall' = "init"
    /\ wasi' = Beside(W_init(wasi))
    /\ ret' = Void
    /\ frees' = <<>>
    /\ engine' = <<>>
    /\ UNCHANGED <<pair, last_style, last_fallback, variant, g_last_result, heap,
                   ver_ptr, ver_len, versionCalls, ub>>

\* mutant: the handle is not checked, the call reports success
wasm_set_style_Unchecked ==
    /\ \E s \in Strings :
         IF g_formatter = NULL
         THEN /\ ret' = IntRet(0)
              /\ objects' = objects
              /\ last_style' = last_style
              /\ wasi' = Beside(W_set_style(wasi, s))
         ELSE /\ objects' = with_style(objects, g_formatter, s)
              /\ ret' = IntRet(0)
              /\ last_style' = <<s>>
              /\ wasi' = Beside(W_set_style(wasi, s))
    /\ lastCall' = "set_style"
    /\ frees' = <<>>
    /\ engine' = <<>>
    /\ UNCHANGED <<pair, last_fallback, init_called, variant, g_formatter, g_last_result,
                   heap, ver_ptr, ver_len, versionCalls, ub>>

\* wasm_set_style(style, style_len); s is std::string(style, style_len)
wasm_set_style ==
    /\ \E s \in Strings :
         IF g_formatter = NULL
         THEN /\ ret' = IntRet(-1)
              /\ objects' = objects
              /\ last_style' = last_style
              /\ wasi' = Beside(W_set_style(wasi, s))
         ELSE /\ objects' = with_style(objects, g_formatter, s)
              /\ ret' = IntRet(0)
              /\ last_style' = <<s>>
              /\ wasi' = Beside(W_set_style(wasi, s))
    /\ lastCall' = "set_style"
    /\ frees' = <<>>
    /\ engine' = <<>>
    /\ UNCHANGED <<pair, last_fallback, init_called, variant, g_formatter, g_last_result,
                   heap, ver_ptr, ver_len, versionCalls, ub>>

\* mutant: the fallback setter configures the primary style
wasm_set_fallback_style_Primary ==
    /\ \E s \in Strings :
         IF g_formatter = NULL
         THEN /\ ret' = IntRet(-1)
              /\ objects' = objects
              /\ last_fallback' = last_fallback
              /\ wasi' = Beside(W_set_fallback_style(wasi, s))
         ELSE /\ objects' = with_style(objects, g_formatter, s)
              /\ ret' = IntRet(0)
              /\ last_fallback' = <<s>>
              /\ wasi' = Beside(W_set_fallback_style(wasi, s))
    /\ lastCall' = "set_fallback_style"
    /\ frees' = <<>>
    /\ engine' = <<>>
    /\ UNCHANGED <<pair, last_style, init_called, variant, g_formatter, g_last_result,
                   heap, ver_ptr, ver_len, versionCalls, ub>>

\* wasm_set_fallback_style(style, style_len); s is std::string(style, style_len)
wasm_set_fallback_style ==
    /\ \E s \in Strings :
         IF g_formatter = NULL
         THEN /\ ret' = IntRet(-1)
              /\ objects' = objects
              /\ last_fallback' = last_fallback
              /\ wasi' = Beside(W_set_fallback_style(wasi, s))
         ELSE /\ objects' = with_fallback_style(objects, g_formatter, s)
              /\ ret' = IntRet(0)
              /\ last_fallback' = <<s>>
              /\ wasi' = Beside(W_set_fallback_style(wasi, s))
    /\ lastCall' = "set_fallback_style"
    /\ frees' = <<>>
    /\ engine' = <<>>
    /\ UNCHANGED <<pair, last_style, init_called, variant, g_formatter, g_last_result,
                   heap, ver_ptr, ver_len, versionCalls, ub>>

(* ---------------------------- format ---------------------------------- *)
\* mutant: the not-initialized path reports Success
ErrorSlot_Success == [status |-> 0, content_ptr |-> NULL, content_len |-> 0]

\* the slot written on the not-initialized path
ErrorSlot == [status |-> 1, content_ptr |-> NULL, content_len |-> 0]

\* mutant: the previous content is never released
PreviousContent_Never(last) == NULL

\* "Free previous result content if any": the pointer handed to free, NULL for none
PreviousContent(last) == last.content_ptr

\* mutant: the cases for Error and Unchanged are exchanged
MapStatus_Swapped(last, status) ==
    [last EXCEPT !.status = CASE status = "Success" -> 0
                              [] status = "Error" -> 2
                              [] status = "Unchanged" -> 1]

\* the switch over result.status
MapStatus(last, status) == [last EXCEPT !.status = StatusCode(status)]

\* mutant: the content is stored for a Success status only
StoreContent_SuccessOnly(last, content, a) ==
    IF content # <<>> /\ last.status = 0
    THEN [last EXCEPT !.content_len = Len(content), !.content_ptr = a]
    ELSE [last EXCEPT !.content_ptr = NULL, !.content_len = 0]

\* mutant: the stored length counts a terminator
StoreContent_Terminated(last, content, a) ==
    IF content # <<>>
    THEN [last EXCEPT !.content_len = Len(content) + 1, !.content_ptr = a]
    ELSE [last EXCEPT !.content_ptr = NULL, !.content_len = 0]

\* the content copied into a block malloc returned at a, or the empty slot
StoreContent(last, content, a) ==
    IF content # <<>>
    THEN [last EXCEPT !.content_len = Len(content), !.content_ptr = a]
    ELSE [last EXCEPT !.content_ptr = NULL, !.content_len = 0]

\* what wasm_format returns: &g_last_result, or the status
FormatReturn(v, last) == IF v = "part_000" THEN ResultRef ELSE IntRet(last.status)

\* g_formatter->format(code_str, filename_str): the engine may return any Result
ClangFormat_format(this) == Result

\* mutant: without the handle check, an absent formatter is replaced by a default one
wasm_format_Unguarded ==
    /\ \E result \in Result :
         LET this == IF g_formatter = NULL THEN NewClangFormat ELSE objects[g_formatter]
             prev == PreviousContent(g_last_result)
             h1 == Free(heap, prev)
             r1 == IF prev # NULL THEN [g_last_result EXCEPT !.content_ptr = NULL]
                   ELSE g_last_result
             r2 == MapStatus(r1, result.status)
         IN \E a \in (IF result.content # <<>> THEN FreeAddrs(h1) ELSE {NULL}) :
              /\ g_last_result' = StoreContent(r2, result.content, a)
              /\ heap' = IF result.content # <<>>
                         THEN MallocAt(h1, a, "result", result.content)
                         ELSE h1
              /\ frees' = IF prev # NULL THEN <<prev>> ELSE <<>>
              /\ ub' = (ub \/ BadFree(heap, prev, "result"))
              /\ engine' = <<[style |-> this.style,
                              fallback_style |-> this.fallback_style,
                              result |-> result]>>
              /\ ret' = FormatReturn(variant, g_last_result')
              /\ wasi' = Beside(W_format(wasi, result, a))
    /\ lastCall' = "format"
    /\ UNCHANGED <<pair, last_style, last_fallback, init_called, variant, g_formatter,
                   objects, ver_ptr, ver_len, versionCalls>>

\* wasm_format(code, code_len, filename, filename_len)
wasm_format ==
    /\ IF g_formatter = NULL
       THEN /\ g_last_result' = ErrorSlot
            /\ ret' = FormatReturn(variant, ErrorSlot)
            /\ frees' = <<>>
            /\ engine' = <<>>
            /\ UNCHANGED <<heap, ub>>
            /\ wasi' = Beside(W_format(wasi, [status |-> "Error", content |-> <<>>], NULL))
       ELSE \E result \in ClangFormat_format(objects[g_formatter]) :
              LET prev == PreviousContent(g_last_result)
                  h1 == Free(heap, prev)
                  r1 == IF prev # NULL THEN [g_last_result EXCEPT !.content_ptr = NULL]
                        ELSE g_last_result
                  r2 == MapStatus(r1, result.status)
              IN \E a \in (IF result.content # <<>> THEN FreeAddrs(h1) ELSE {NULL}) :
                   /\ g_last_result' = StoreContent(r2, result.content, a)
                   /\ heap' = IF result.content # <<>>
                              THEN MallocAt(h1, a, "result", result.content)
                              ELSE h1
                   /\ frees' = IF prev # NULL THEN <<prev>> ELSE <<>>
                   /\ ub' = (ub \/ BadFree(heap, prev, "result"))
                   /\ engine' = <<[style |-> objects[g_formatter].style,
                                   fallback_style |-> objects[g_formatter].fallback_style,
                                   result |-> result]>>
                   /\ ret' = FormatReturn(variant, g_last_result')
                   /\ wasi' = Beside(W_format(wasi, result, a))
    /\ lastCall' = "format"
    /\ UNCHANGED <<pair, last_style, last_fallback, init_called, variant, g_formatter,
                   objects, ver_ptr, ver_len, versionCalls>>

(* ---------------------------- result accessors ------------------------ *)
\* wasm_get_result_status (exported by part_000 only)
wasm_get_result_status ==
    /\ variant = "part_000"
    /\ ret' = IntRet(g_last_result.status)
    /\ wasi' = Beside(W_NoCall(wasi))
    /\ lastCall' = "get_result_status"
    /\ frees' = <<>>
    /\ engine' = <<>>
    /\ UNCHANGED <<pair, last_style, last_fallback, init_called, variant, g_formatter,
                   objects, g_last_result, heap, ver_ptr, ver_len, versionCalls, ub>>

\* mutant: reading the pointer hands the buffer over and empties the slot
wasm_get_result_ptr_Take ==
    /\ ret' = PtrRet(g_last_result.content_ptr)
    /\ g_last_result' = [g_last_result EXCEPT !.content_ptr = NULL, !.content_len = 0]
    /\ wasi' = Beside(W_get_result_ptr(wasi))
    /\ lastCall' = "get_result_ptr"
    /\ frees' = <<>>
    /\ engine' = <<>>
    /\ UNCHANGED <<pair, last_style, last_fallback, init_called, variant, g_formatter,
                   objects, heap, ver_ptr, ver_len, versionCalls, ub>>

\* wasm_get_result_ptr
wasm_get_result_ptr ==
    /\ ret' = PtrRet(g_last_result.content_ptr)
    /\ wasi' = Beside(W_get_result_ptr(wasi))
    /\ lastCall' = "get_result_ptr"
    /\ frees' = <<>>
    /\ engine' = <<>>
    /\ UNCHANGED <<pair, last_style, last_fallback, init_called, variant, g_formatter,
                   objects, g_last_result, heap, ver_ptr, ver_len, versionCalls, ub>>

\* wasm_get_result_len
wasm_get_result_len ==
    /\ ret' = IntRet(g_last_result.content_len)
    /\ wasi' = Beside(W_get_result_len(wasi))
    /\ lastCall' = "get_result_len"
    /\ frees' = <<>>
    /\ engine' = <<>>
    /\ UNCHANGED <<pair, last_style, last_fallback, init_called, variant, g_formatter,
                   objects, g_last_result, heap, ver_ptr, ver_len, versionCalls, ub>>

\* mutant: the pointer survives the release
ReleasedSlot_KeepPtr(last) == [last EXCEPT !.content_len = 0]

\* mutant: the length survives the release
ReleasedSlot_KeepLen(last) == [last EXCEPT !.content_ptr = NULL]

\* mutant: the release resets the whole slot
ReleasedSlot_Reset(last) == [status |-> 0, content_ptr |-> NULL, content_len |-> 0]

\* the slot wasm_free_result leaves when it held a buffer
ReleasedSlot(last) == [last EXCEPT !.content_ptr = NULL, !.content_len = 0]

\* mutant: the slot keeps the freed pointer, so a later release frees it again
wasm_free_result_Stale ==
    /\ IF g_last_result.content_ptr # NULL
       THEN /\ heap' = Free(heap, g_last_result.content_ptr)
            /\ frees' = <<g_last_result.content_ptr>>
            /\ ub' = (ub \/ BadFree(heap, g_last_result.content_ptr, "result"))
            /\ g_last_result' = g_last_result
       ELSE /\ frees' = <<>>
            /\ UNCHANGED <<heap, ub, g_last_result>>
    /\ wasi' = Beside(W_free_result(wasi))
    /\ lastCall' = "free_result"
    /\ ret' = Void
    /\ engine' = <<>>
    /\ UNCHANGED <<pair, last_style, last_fallback, init_called, variant, g_formatter,
                   objects, ver_ptr, ver_len, versionCalls>>

\* wasm_free_result
wasm_free_result ==
    /\ IF g_last_result.content_ptr # NULL
       THEN /\ heap' = Free(heap, g_last_result.content_ptr)
            /\ frees' = <<g_last_result.content_ptr>>
            /\ ub' = (ub \/ BadFree(heap, g_last_result.content_ptr, "result"))
            /\ g_last_result' = ReleasedSlot(g_last_result)
       ELSE /\ frees' = <<>>
            /\ UNCHANGED <<heap, ub, g_last_result>>
    /\ wasi' = Beside(W_free_result(wasi))
    /\ lastCall' = "free_result"
    /\ ret' = Void
    /\ engine' = <<>>
    /\ UNCHANGED <<pair, last_style, last_fallback, init_called, variant, g_formatter,
                   objects, ver_ptr, ver_len, versionCalls>>

(* ---------------------------- version --------------------------------- *)
\* wasm_version: initialises its static on the first call, returns ver.c_str()
wasm_version ==
    /\ IF ver_ptr = <<>>
       THEN /\ ver_ptr' = <<EngineVersion>>
            /\ versionCalls' = versionCalls + 1
       ELSE UNCHANGED <<ver_ptr, versionCalls>>
    /\ ret' = VerAddr
    /\ wasi' = Beside(W_version(wasi))
    /\ lastCall' = "version"
    /\ frees' = <<>>
    /\ engine' = <<>>
    /\ UNCHANGED <<pair, last_style, last_fallback, init_called, variant, g_formatter,
                   objects, g_last_result, heap, ver_len, ub>>

\* mutant: the length counts the terminator of c_str()
wasm_version_len_Terminator ==
    /\ IF ver_len = <<>>
       THEN /\ ver_len' = <<EngineVersion>>
            /\ versionCalls' = versionCalls + 1
       ELSE UNCHANGED <<ver_len, versionCalls>>
    /\ ret' = IntRet(Len(ver_len'[1]) + 1)
    /\ wasi' = Beside(W_version_len(wasi))
    /\ lastCall' = "version_len"
    /\ frees' = <<>>
    /\ engine' = <<>>
    /\ UNCHANGED <<pair, last_style, last_fallback, init_called, variant, g_formatter,
                   objects, g_last_result, heap, ver_ptr, ub>>

\* wasm_version_len: initialises its own static on the first call, returns ver.size()
wasm_version_len ==
    /\ IF ver_len = <<>>
       THEN /\ ver_len' = <<EngineVersion>>
            /\ versionCalls' = versionCalls + 1
       ELSE UNCHANGED <<ver_len, versionCalls>>
    /\ ret' = IntRet(Len(ver_len'[1]))
    /\ wasi' = Beside(W_version_len(wasi))
    /\ lastCall' = "version_len"
    /\ frees' = <<>>
    /\ engine' = <<>>
    /\ UNCHANGED <<pair, last_style, last_fallback, init_called, variant, g_formatter,
                   objects, g_last_result, heap, ver_ptr, ub>>

(* ---------------------------- specification --------------------------- *)
Next ==
    \/ wasm_alloc
    \/ wasm_dealloc
    \/ wasm_init
    \/ wasm_set_style
    \/ wasm_set_fallback_style
    \/ wasm_format
    \/ wasm_get_result_status
    \/ wasm_get_result_ptr
    \/ wasm_get_result_len
    \/ wasm_free_result
    \/ wasm_version
    \/ wasm_version_len

Spec == Init /\ [][Next]_vars

\* part_000 with the build of wasi_binding.cc run beside it on the same calls
InitPair ==
    /\ variant = "part_000"
    /\ g_formatter = NULL
    /\ objects = <<>>
    /\ g_last_result = [status |-> 0, content_ptr |-> NULL, content_len |-> 0]
    /\ heap = [a \in Addrs |-> FreeBlock]
    /\ ver_ptr = <<>>
    /\ ver_len = <<>>
    /\ versionCalls = 0
    /\ lastCall = "none"
    /\ ret = Void
    /\ frees = <<>>
    /\ engine = <<>>
    /\ ub = FALSE
    /\ init_called = FALSE
    /\ last_style = <<>>
    /\ last_fallback = <<>>
    /\ wasi = W_Init
    /\ pair = TRUE

SpecPair == InitPair /\ [][Next]_vars

TypeOK ==
    /\ variant \in Variants
    /\ g_formatter \in 0..Len(objects)
    /\ g_last_result.status \in {0, 1, 2}
    /\ g_last_result.content_ptr \in Addrs \cup {NULL}
    /\ versionCalls \in 0..2
    /\ init_called \in BOOLEAN

(* ---------------------------- claims ---------------------------------- *)
\* everything the module owns, without the observations of the last call
module == <<g_formatter, objects, g_last_result, heap, ver_ptr, ver_len, versionCalls>>

\* the format call that ran last reached the engine (the handle was initialized)
FormatDelegated == lastCall = "format" /\ engine # <<>>

\* the only live result block is the one the slot points to
OneLiveResult ==
    ResultBlocks(heap) =
        IF g_last_result.content_ptr = NULL THEN {} ELSE {g_last_result.content_ptr}

\* C1: over any sequence of boundary calls no block is freed twice (no call frees a
\* block that is not live), the live result blocks are exactly the one the slot holds
\* (at most one, no predecessor leaked), and a format call on an initialized handle
\* frees exactly the block the slot held and nothing else.
C1_NoDoubleFreeNoLeak ==
    /\ [](~ub /\ OneLiveResult /\ Cardinality(ResultBlocks(heap)) <= 1)
    /\ [][(lastCall' = "format" /\ g_formatter # NULL) =>
            frees' = IF g_last_result.content_ptr # NULL
                     THEN <<g_last_result.content_ptr>> ELSE <<>>]_vars

\* a format call that released its predecessor's block and stored a new one
C1_Witness ==
    /\ FormatDelegated
    /\ frees # <<>>
    /\ g_last_result.content_ptr # NULL
    /\ heap[g_last_result.content_ptr].live

\* C2: between boundary calls the slot's pointer is non-null exactly when its
\* length is positive.
C2_PtrIffLen == (g_last_result.content_ptr # NULL) <=> (g_last_result.content_len > 0)

\* a release that emptied a slot holding content
C2_Witness ==
    /\ lastCall = "free_result"
    /\ frees # <<>>
    /\ g_last_result.content_ptr = NULL
    /\ g_last_result.content_len = 0

\* C3 (as claimed): right after any format call, status Error means length 0 and a
\* null pointer.
C3_ErrorImpliesEmpty ==
    (lastCall = "format" /\ g_last_result.status = 1) =>
        (g_last_result.content_len = 0 /\ g_last_result.content_ptr = NULL)

\* C4 (as claimed): after a format call on an initialized handle the length is
\* positive exactly when the status is Success.
C4_LenIffSuccess ==
    FormatDelegated => ((g_last_result.content_len > 0) <=> (g_last_result.status = 0))

\* C4 (amended): after a format call on an initialized handle the length is positive
\* exactly when the engine returned non-empty content, whatever the status.
C4_LenIffContent ==
    FormatDelegated =>
        ((g_last_result.content_len > 0) <=> (engine[1].result.content # <<>>))

\* an Unchanged result that carries content
C4_Witness ==
    /\ FormatDelegated
    /\ g_last_result.status = 2
    /\ g_last_result.content_len > 0

Setters == {"set_style", "set_fallback_style"}

\* C5: while initialize has never been called, every setStyle and setFallbackStyle
\* call returns -1 and changes nothing the module owns.
C5_SettersBeforeInit ==
    [][(~init_called /\ lastCall' \in Setters) =>
         (ret' = IntRet(-1) /\ UNCHANGED module /\ ub' = ub)]_vars

\* a setter refused before any initialize
C5_Witness == ~init_called /\ lastCall \in Setters /\ ret = IntRet(-1)

\* C6: a format call made while initialize has never been called leaves status
\* Error, a null pointer and length 0, returns that Error status (as the integer, or
\* through the returned record) and does not call the engine.
C6_FormatBeforeInit ==
    (lastCall = "format" /\ ~init_called) =>
        /\ g_last_result = [status |-> 1, content_ptr |-> NULL, content_len |-> 0]
        /\ engine = <<>>
        /\ ret = IF variant = "part_000" THEN ResultRef ELSE IntRet(1)

\* a format call before any initialize
C6_Witness == lastCall = "format" /\ ~init_called

\* C7: the first initialize constructs the handle and touches nothing else; every
\* later initialize changes nothing the module owns (handle, styles, Result Slot),
\* so N calls leave the state one call leaves.
C7_InitIdempotent ==
    [][lastCall' = "init" =>
         /\ g_formatter' # NULL
         /\ IF init_called
            THEN UNCHANGED module
            ELSE /\ Len(objects') = Len(objects) + 1
                 /\ UNCHANGED <<g_last_result, heap, ver_ptr, ver_len, versionCalls>>
         /\ ub' = ub]_vars

\* a later initialize, with a style configured and a result held
C7_Witness ==
    /\ lastCall = "init"
    /\ objects[g_formatter].style # <<>>
    /\ objects[g_formatter].fallback_style # <<>>
    /\ g_last_result.content_ptr # NULL

\* C8: releaseResult always leaves length 0 and a null pointer; on an empty slot it
\* frees nothing and changes nothing; on a held buffer it frees that buffer once, so
\* the second of two calls in a row frees nothing; it never frees a block that is
\* not live.
C8_ReleaseIdempotent ==
    [][lastCall' = "free_result" =>
         /\ g_last_result'.content_ptr = NULL
         /\ g_last_result'.content_len = 0
         /\ IF g_last_result.content_ptr = NULL
            THEN frees' = <<>> /\ UNCHANGED module
            ELSE /\ frees' = <<g_last_result.content_ptr>>
                 /\ ~heap'[g_last_result.content_ptr].live
         /\ lastCall = "free_result" => (frees' = <<>> /\ UNCHANGED module)
         /\ ~ub']_vars

\* a release that freed the held buffer
C8_Witness ==
    /\ lastCall = "free_result"
    /\ frees # <<>>
    /\ ~heap[frees[1]].live
    /\ g_last_result.content_ptr = NULL

Accessors == {"get_result_status", "get_result_ptr", "get_result_len"}

\* the boundary operations other than format and releaseResult that the claim names
NonSlotOps ==
    Accessors \cup Setters \cup {"init", "version", "version_len", "alloc"}

\* C9: initialize, the setters, the accessors, version and allocate leave every field
\* of the Result Slot and the held buffer as they were and free nothing; the
\* accessors change nothing at all and return the slot's fields.
C9_SlotFrame ==
    [][lastCall' \in NonSlotOps =>
         /\ g_last_result' = g_last_result
         /\ frees' = <<>>
         /\ g_last_result.content_ptr # NULL =>
              heap'[g_last_result.content_ptr] = heap[g_last_result.content_ptr]
         /\ lastCall' \in Accessors =>
              /\ UNCHANGED module
              /\ ret' = CASE lastCall' = "get_result_status" -> IntRet(g_last_result.status)
                          [] lastCall' = "get_result_ptr" -> PtrRet(g_last_result.content_ptr)
                          [] lastCall' = "get_result_len" -> IntRet(g_last_result.content_len)]_vars

\* the pointer accessor returning a held, live buffer
C9_Witness ==
    /\ lastCall = "get_result_ptr"
    /\ ret.v # NULL
    /\ heap[ret.v].live
    /\ g_last_result.content_ptr = ret.v

\* C10: once initialize has been called the handle is the one object ever
\* constructed and stays so; from then on the setters return 0 and format reaches
\* the engine; never is a second handle constructed.
C10_HandleStays ==
    /\ Len(objects) <= 1
    /\ init_called => (g_formatter # NULL /\ g_formatter = Len(objects))
    /\ (init_called /\ lastCall \in Setters) => ret = IntRet(0)
    /\ (init_called /\ lastCall = "format") => engine # <<>>

\* a setter accepted after initialize and an Unchanged format
C10_Witness ==
    /\ init_called
    /\ lastCall \in Setters
    /\ ret = IntRet(0)
    /\ g_last_result.status = 2

\* the style fields of every constructed formatter, by field
StyleOf(objs) == [i \in 1..Len(objs) |-> objs[i].style]
FallbackOf(objs) == [i \in 1..Len(objs) |-> objs[i].fallback_style]

\* C11: a format call on an initialized handle hands the engine the primary style of
\* the most recent setStyle that returned 0 and the fallback style of the most recent
\* setFallbackStyle that returned 0 (none configured if there was none); setStyle
\* leaves every fallback style, setFallbackStyle every primary style, and both leave
\* the handle, the Result Slot and the heap as they were.
C11_StylesReachEngine ==
    /\ [](FormatDelegated =>
            /\ engine[1].style = last_style
            /\ engine[1].fallback_style = last_fallback)
    /\ [][lastCall' \in Setters =>
            /\ lastCall' = "set_style" => FallbackOf(objects') = FallbackOf(objects)
            /\ lastCall' = "set_fallback_style" => StyleOf(objects') = StyleOf(objects)
            /\ UNCHANGED <<g_formatter, g_last_result, heap>>
            /\ frees' = <<>>]_vars

\* a format call reaching the engine with a primary and a fallback style that differ
C11_Witness ==
    /\ FormatDelegated
    /\ engine[1].style # <<>>
    /\ engine[1].fallback_style # <<>>
    /\ engine[1].style # engine[1].fallback_style
    /\ g_last_result.content_ptr # NULL

\* C12: the build of part_000 (format returning &g_last_result) and the build of
\* wasi_binding.cc (format returning the status), started from their initial states
\* and given the same calls, the same engine results and the same allocator answers,
\* hold after every call the same handle state and configured styles, the same Result
\* Slot (status, pointer, length) over the same heap, hence the same buffer bytes,
\* and have freed the same addresses; format returns the record in one and that
\* record's status in the other, and every other call returns the same value.
C12_VariantsEquivalent ==
    pair =>
        /\ (g_formatter = NULL) <=> (wasi.g_formatter = NULL)
        /\ objects = wasi.objects
        /\ g_last_result.status = wasi.g_last_result.status
        /\ g_last_result.content_len = wasi.g_last_result.content_len
        /\ g_last_result.content_ptr = wasi.g_last_result.content_ptr
        /\ heap = wasi.heap
        /\ frees = wasi.frees
        /\ lastCall = "format" =>
             (ret = ResultRef /\ wasi.ret = IntRet(g_last_result.status))
        /\ lastCall \notin {"format", "get_result_status"} => ret = wasi.ret

\* both builds replaced a held buffer by a new one in the same format call
C12_Witness ==
    /\ pair
    /\ FormatDelegated
    /\ frees # <<>>
    /\ wasi.frees = frees
    /\ wasi.ret = IntRet(g_last_result.status)
    /\ wasi.g_last_result.content_ptr # NULL
    /\ wasi.heap[wasi.g_last_result.content_ptr].live

\* C13: every version pointer query returns the address of the same string object,
\* every version length query the same length, whatever calls ran in between; each
\* cached string, once initialised, is the engine's version string, so the pointer
\* and the length describe the same string.
C13_VersionStable ==
    /\ ver_ptr \in {<<>>, <<EngineVersion>>}
    /\ ver_len \in {<<>>, <<EngineVersion>>}
    /\ lastCall = "version" => (ret = VerAddr /\ ver_ptr # <<>>)
    /\ lastCall = "version_len" => (ver_len # <<>> /\ ret = IntRet(Len(EngineVersion)))
    /\ (lastCall = "version_len" /\ ver_ptr # <<>>) => ret = IntRet(Len(ver_ptr[1]))

\* a length query after a pointer query, with a format result held in between
C13_Witness ==
    /\ lastCall = "version_len"
    /\ ver_ptr # <<>>
    /\ ret = IntRet(Len(ver_ptr[1]))
    /\ g_last_result.content_ptr # NULL

\* C14 (as claimed): over any sequence of version pointer and version length queries
\* the engine's version function runs at most once.
C14_VersionOnce == versionCalls <= 1

\* the operations of the module proper (the allocator shim aside)
ModuleOps == {"init", "set_style", "set_fallback_style", "format", "free_result"}

\* C15: every address initialize, the setters, format and releaseResult pass to free
\* is, at that moment, a live block that format allocated for a result; these
\* operations leave every block the caller holds live and as it was, and the block
\* format writes its result into is never one the caller holds.
C15_FreesOnlyOwn ==
    [][lastCall' \in ModuleOps =>
         /\ \A i \in 1..Len(frees') :
              heap[frees'[i]].live /\ heap[frees'[i]].owner = "result"
         /\ \A a \in CallerBlocks(heap) : heap'[a] = heap[a]
         /\ (lastCall' = "format" /\ g_last_result'.content_ptr # NULL) =>
              g_last_result'.content_ptr \notin CallerBlocks(heap)]_vars

\* a format call that freed the held result while the caller held a block
C15_Witness ==
    /\ lastCall = "format"
    /\ frees # <<>>
    /\ CallerBlocks(heap) # {}
    /\ frees[1] \notin CallerBlocks(heap)
    /\ g_last_result.content_ptr # NULL

\* C16: after a format call on an initialized handle whose engine output is n bytes:
\* if n > 0 the slot points to a live block that format allocated, holding exactly
\* the n bytes of the output, with length n, and that block is the only result block;
\* if n = 0 the slot is empty (null pointer, length 0) and no result block is live,
\* whatever an earlier format call had stored.
C16_SlotHoldsOutput ==
    FormatDelegated =>
        LET out == engine[1].result.content
            p == g_last_result.content_ptr
        IN IF Len(out) > 0
           THEN /\ p # NULL
                /\ heap[p].live
                /\ heap[p].owner = "result"
                /\ heap[p].bytes = out
                /\ g_last_result.content_len = Len(out)
                /\ ResultBlocks(heap) = {p}
           ELSE /\ p = NULL
                /\ g_last_result.content_len = 0
                /\ ResultBlocks(heap) = {}

\* an empty engine output replacing content an earlier format call had stored
C16_Witness ==
    /\ FormatDelegated
    /\ frees # <<>>
    /\ engine[1].result.content = <<>>
    /\ g_last_result.content_ptr = NULL
    /\ ResultBlocks(heap) = {}

\* C17: the slot status is always 0, 1 or 2; after a format call that reached the
\* engine it is 0 for Success, 1 for Error and 2 for Unchanged; what format returns
\* is the Result Slot record itself (part_000) or the slot's status (wasi_binding.cc);
\* and a resultStatus() made right after a format call returns the status that
\* format call left, without changing the slot.
C17_StatusMapping ==
    /\ [](/\ g_last_result.status \in {0, 1, 2}
          /\ FormatDelegated =>
               /\ engine[1].result.status = "Success" => g_last_result.status = 0
               /\ engine[1].result.status = "Error" => g_last_result.status = 1
               /\ engine[1].result.status = "Unchanged" => g_last_result.status = 2
          /\ lastCall = "format" =>
               ret = IF variant = "part_000" THEN ResultRef
                     ELSE IntRet(g_last_result.status))
    /\ [][(lastCall = "format" /\ lastCall' = "get_result_status") =>
            (ret' = IntRet(g_last_result.status) /\ g_last_result' = g_last_result)]_vars

\* resultStatus() reading Unchanged right after the format call that reported it
C17_Witness ==
    /\ lastCall = "get_result_status"
    /\ ret = IntRet(2)
    /\ g_last_result.status = 2
    /\ g_last_result.content_ptr = NULL

\* C18: whenever the handle is uninitialized the Result Slot holds no buffer (null
\* pointer, length 0) and no result block is live; so a format call taking the
\* not-initialized path, which nulls the pointer without a free, frees nothing and
\* leaves no block behind.
C18_NoBufferWithoutHandle ==
    /\ g_formatter = NULL =>
         /\ g_last_result.content_ptr = NULL
         /\ g_last_result.content_len = 0
         /\ ResultBlocks(heap) = {}
    /\ (lastCall = "format" /\ engine = <<>>) =>
         /\ g_formatter = NULL
         /\ frees = <<>>
         /\ ResultBlocks(heap) = {}

\* the not-initialized path of format taken while the caller holds a block
C18_Witness ==
    /\ g_formatter = NULL
    /\ lastCall = "format"
    /\ g_last_result.status = 1
    /\ frees = <<>>
    /\ CallerBlocks(heap) # {}

\* C19: the slot starts as status 0 (Success), null pointer, length 0, and stays so
\* until a format call; releaseResult never changes the status, nor does any call
\* other than format, so after format and any number of releaseResult calls the
\* status is still the one that format call left.
C19_ReleaseKeepsStatus ==
    /\ g_last_result = [status |-> 0, content_ptr |-> NULL, content_len |-> 0]
    /\ [][lastCall' # "format" =>
            /\ g_last_result'.status = g_last_result.status
            /\ g_last_result.content_ptr = NULL => g_last_result' = g_last_result]_vars

\* a release after a Success format: status 0 read with a null pointer and length 0
C19_Witness ==
    /\ lastCall = "free_result"
    /\ frees # <<>>
    /\ init_called
    /\ g_last_result = [status |-> 0, content_ptr |-> NULL, content_len |-> 0]

====
